---- MODULE Spec2Model ----
(***************************************************************************)
(* The data-loading state machine of pages/dashboard.js (DashboardPage):   *)
(* configuration fetch, URL-driven and manual record fetch, and the        *)
(* application of the responses to the page state.                         *)
(*                                                                         *)
(* A state of the model is a committed render of the component together    *)
(* with its refs and the requests that are still in flight.  One action is *)
(* one event handler (mount, click, typing, route change, response) with   *)
(* its batched state updates.  The data fetch trigger effect is an action  *)
(* of its own: it runs after a commit in which one of its dependencies     *)
(* changed, and before any other event is handled.                         *)
(***************************************************************************)
EXTENDS Integers, FiniteSets, Sequences, TLC

(* ------------------------------ bounds -------------------------------- *)

\* number of user events (typing, click, URL change) in one page lifetime
MaxUserEvents == 4

(* ------------------------------ values -------------------------------- *)

\* visitor identifiers; "" stands for undefined / null / '' (all falsy)
Ids == {"A", "B"}
NoId == ""

\* texts the user can type into #visitorIdInput
InputTexts == {"", " ", "A", "B", " A"}

\* no router.push waiting to complete
NoPush == "-"

\* a nullable value is the empty set (null) or a singleton
None == {}
Some(x) == {x}
TheValue(o) == CHOOSE x \in o : TRUE

\* a displayed text: a template and up to two interpolated values
Msg(t, a, b) == [t |-> t, a |-> a, b |-> b]
Msg0(t) == Msg(t, "", "")
Msg1(t, a) == Msg(t, a, "")

\* variant: the input text is used as typed
Trim_Untrimmed(s) == s

\* String.prototype.trim over InputTexts
Trim(s) ==
    CASE s = " " -> ""
      [] s = " A" -> "A"
      [] OTHER -> s

\* the query value that router.push(`/dashboard?visitor_id=${id}`) yields;
\* identifiers of Ids hold no character that URL parsing rewrites
QueryOfPush(id) == id

\* message texts the servers can send ("" = no message)
ServerMessages == {"", "Visitor lookup failed"}

\* response.data.data of the configuration endpoint when success is true
ConfigPayloads ==
    { [ajax_url |-> "/wp-admin/admin-ajax.php", nonce |-> "n1", useAjaxProxy |-> TRUE],
      [ajax_url |-> "", nonce |-> "n1", useAjaxProxy |-> TRUE],
      [ajax_url |-> "/wp-admin/admin-ajax.php", nonce |-> "", useAjaxProxy |-> TRUE],
      [ajax_url |-> "/wp-admin/admin-ajax.php", nonce |-> "n1", useAjaxProxy |-> FALSE] }

\* outcomes of axios.get(.../config)
ConfigOutcomes ==
    [k : {"success"}, payload : { Some(p) : p \in ConfigPayloads }, m : {""}]
    \cup [k : {"successNoData"}, payload : {None}, m : {""}]
    \cup [k : {"failure"}, payload : {None}, m : ServerMessages]
    \cup [k : {"transport"}, payload : {None}, m : {"Network Error"}]

\* non-empty records the proxy can return for an identifier ("" = field absent)
RecordsOf(id) ==
    { [visitor |-> id, first_name |-> "Ann",
       organization_name |-> "Acme Corporation", company_short |-> "Acme",
       kpi_data |-> "", structured_core_services |-> "", deep_reaserach |-> ""],
      [visitor |-> id, first_name |-> "",
       organization_name |-> "", company_short |-> "",
       kpi_data |-> "", structured_core_services |-> "", deep_reaserach |-> ""] }

\* contents of the kpi_data field: absent or empty, not JSON, an empty array,
\* an object, three KPI objects, one KPI object whose texts hold characters
\* that escapeHtml rewrites, an array of a number, an array of null
KpiTexts ==
    { "", "kpi: n/a", "[]", "{\"label\":\"Leads\"}",
      "[{\"label\":\"Leads\",..},{\"label\":\"Cost\",..},{\"label\":\"Churn\",..}]",
      "[{\"label\":\"R&D\",\"value\":\"<5%\",\"target\":\"O'Neil\"}]",
      "[7]", "[null]" }

\* contents of the structured_core_services field
ServiceTexts == { "", "SEO, Ads", "[]", "[\"SEO\",\"Ads\"]", "[null]" }

\* contents of the deep_reaserach field (markdown)
ReportTexts ==
    { "", "# Findings", "Sales grew.",
      "<script>alert(1)</script>", "<img src=x onerror=alert(1)>" }

\* the records the proxy can return for an identifier, with the fields that
\* only the render reads
RichRecordsOf(id) ==
    [visitor : {id}, first_name : {"", "Ann"},
     organization_name : {"", "Acme Corporation"}, company_short : {"", "Acme"},
     kpi_data : KpiTexts, structured_core_services : ServiceTexts,
     deep_reaserach : ReportTexts]

AllRecords == UNION { RecordsOf(id) : id \in Ids }

\* outcomes of axios.post(wpConfig.ajax_url, formData) for an identifier
FetchOutcomes(id) ==
    [k : {"record"}, rec : { Some(r) : r \in RecordsOf(id) }, m : {""}, status : {""}]
    \cup [k : {"empty"}, rec : {None}, m : {""}, status : {""}]
    \cup [k : {"failure"}, rec : {None}, m : ServerMessages, status : {""}]
    \cup [k : {"httpMessage"}, rec : {None}, m : {"Visitor lookup failed"}, status : {"500"}]
    \cup [k : {"httpNonce"}, rec : {None}, m : {""}, status : {"403"}]
    \cup [k : {"httpOther"}, rec : {None}, m : {""}, status : {"500"}]
    \cup [k : {"noResponse"}, rec : {None}, m : {""}, status : {""}]
    \cup [k : {"setup"}, rec : {None}, m : {"", "Request aborted"}, status : {""}]

\* no fetchAndRenderDashboard call ended in this step
NoOutcome == [k |-> "none", id |-> NoId, rec |-> None, m |-> ""]

(* ------------------------------- state -------------------------------- *)

VARIABLES
    apiUrl,                 \* WP_API_URL is defined
    mounted,                \* the mount effects have run
    urlId,                  \* router.query.visitor_id
    pendingPush,            \* target of a router.push that has not completed
    wpConfig,
    visitorIdInput,
    currentNocoRecord,
    isLoading,
    error,
    showNoDataMessage,
    currentStatusMessage,
    lastFetchedIdRef,
    configFetchedRef,
    configInFlight,         \* number of axios.get calls that have not settled
    inFlight,               \* suspended fetchAndRenderDashboard calls
    effectPending,          \* a dependency of the data fetch effect changed
    configRequests,         \* number of axios.get calls issued
    recordRequests,         \* number of axios.post calls issued
    fetchCalls,             \* number of fetchAndRenderDashboard calls
    userEvents,             \* number of user events so far
    lastOk,                 \* per identifier, the record of the latest successful fetch
    staleRecordApplied,     \* a returned record was stored for an identifier other than the URL's
    configOutcome,          \* how the axios.get of fetchWpConfig settled ("" = not yet)
    lastOutcome,            \* how the fetchAndRenderDashboard call that ended in this step settled
    lastEvent               \* the handler that produced this state

vars == << apiUrl, mounted, urlId, pendingPush, wpConfig,
           visitorIdInput, currentNocoRecord, isLoading, error,
           showNoDataMessage, currentStatusMessage, lastFetchedIdRef,
           configFetchedRef, configInFlight, inFlight, effectPending,
           configRequests, recordRequests, fetchCalls, userEvents, lastOk,
           staleRecordApplied, configOutcome, lastOutcome, lastEvent >>

pageState == << wpConfig, visitorIdInput, currentNocoRecord, isLoading, error,
                showNoDataMessage, currentStatusMessage >>

(* ------------------------- derived render values ---------------------- *)

hasData == currentNocoRecord # None /\ ~isLoading /\ error = None

\* the text of the message stored for a fetch that returned no record
NoDataText == "No data found for Visitor ID: %. Please verify the ID."

\* the state of the page as the render tells it apart (the chain that
\* chooses the greeting), with the not-found message told apart from the
\* other errors by its text
appState ==
    IF ~mounted THEN "initializing"
    ELSE IF wpConfig = None /\ ~isLoading /\ error = None THEN "initializing_config"
    ELSE IF hasData THEN "data_loaded"
    ELSE IF isLoading THEN "loading"
    ELSE IF error # None
         THEN (IF TheValue(error).t = NoDataText THEN "no_data_for_id" ELSE "error")
    ELSE "ready"

\* the texts of the status area: the status line and, unless the page is
\* loading, the error banner
StatusShown == << currentStatusMessage, IF isLoading THEN None ELSE error >>

(* A text that the render escapes is a sequence of pieces: a piece is one  *)
(* of the characters & < > " ' or a run of other characters.               *)

\* escapeHtml: each of & < > " ' becomes its entity; undefined and null
\* (the empty sequence) become ''
EscapeHtml(text) ==
    [i \in 1..Len(text) |->
        CASE text[i] = "&" -> "&amp;"
          [] text[i] = "<" -> "&lt;"
          [] text[i] = ">" -> "&gt;"
          [] text[i] = "\"" -> "&quot;"
          [] text[i] = "'" -> "&#039;"
          [] OTHER -> text[i]]

\* a member of a parsed KPI array: kind is "object", "number" or "null"; a
\* property that is not there is the empty sequence
KpiObject(label, value, target) ==
    [kind |-> "object", label |-> label, value |-> value, target |-> target]
KpiOther(kind) == [kind |-> kind, label |-> << >>, value |-> << >>, target |-> << >>]

\* JSON.parse over KpiTexts and ServiceTexts: ok is FALSE for a SyntaxError
JsonParse(text) ==
    CASE text = "[]" -> [ok |-> TRUE, isArray |-> TRUE, items |-> << >>]
      [] text = "{\"label\":\"Leads\"}" -> [ok |-> TRUE, isArray |-> FALSE, items |-> << >>]
      [] text = "[{\"label\":\"Leads\",..},{\"label\":\"Cost\",..},{\"label\":\"Churn\",..}]" ->
            [ok |-> TRUE, isArray |-> TRUE,
             items |-> << KpiObject(<< "Leads" >>, << "120" >>, << "per month" >>),
                          KpiObject(<< "Cost" >>, << "40" >>, << "per lead" >>),
                          KpiObject(<< "Churn" >>, << "2%" >>, << "per year" >>) >>]
      [] text = "[{\"label\":\"R&D\",\"value\":\"<5%\",\"target\":\"O'Neil\"}]" ->
            [ok |-> TRUE, isArray |-> TRUE,
             items |-> << KpiObject(<< "R", "&", "D" >>, << "<", "5%" >>,
                                    << "O", "'", "Neil" >>) >>]
      [] text = "[7]" -> [ok |-> TRUE, isArray |-> TRUE, items |-> << KpiOther("number") >>]
      [] text = "[null]" -> [ok |-> TRUE, isArray |-> TRUE, items |-> << KpiOther("null") >>]
      [] text = "[\"SEO\",\"Ads\"]" ->
            [ok |-> TRUE, isArray |-> TRUE,
             items |-> << KpiOther("string"), KpiOther("string") >>]
      [] OTHER -> [ok |-> FALSE, isArray |-> FALSE, items |-> << >>]

\* the initial value of kpisToShow
DefaultKpis ==
    << KpiObject(<< "Strategic Alignment" >>, << "High" >>,
                 << "With MakerToo", "'", "s Open-Source Focus" >>),
       KpiObject(<< "Innovation Potential" >>, << "Significant" >>,
                 << "Via Custom AI/Automation" >>),
       KpiObject(<< "Data Control" >>, << "Total" >>,
                 << "Through Private Infrastructure" >>),
       KpiObject(<< "Future Scalability" >>, << "Assured" >>,
                 << "With Flexible Tech Stacks" >>) >>

\* kpisToShow
KpisToShow ==
    IF hasData /\ TheValue(currentNocoRecord).kpi_data # ""
    THEN LET dynamicKpis == JsonParse(TheValue(currentNocoRecord).kpi_data)
         IN  IF dynamicKpis.ok /\ dynamicKpis.isArray /\ Len(dynamicKpis.items) > 0
             THEN dynamicKpis.items
             ELSE DefaultKpis
    ELSE DefaultKpis

\* the texts of the cards of kpi-cards-container: each is a text node whose
\* content is the string that escapeHtml returned
KpiCardTexts ==
    [i \in 1..Len(KpisToShow) |->
        [label |-> EscapeHtml(KpisToShow[i].label),
         value |-> EscapeHtml(KpisToShow[i].value),
         target |-> EscapeHtml(KpisToShow[i].target)]]

\* rendering the dashboard content throws: kpi.icon is read of a member of
\* kpisToShow that is null
RenderThrows ==
    hasData /\ \E i \in 1..Len(KpisToShow) : KpisToShow[i].kind = "null"

\* which text growthOpportunitiesHtml holds
GrowthOpportunities ==
    IF hasData /\ TheValue(currentNocoRecord).structured_core_services # ""
    THEN LET servicesArray == JsonParse(TheValue(currentNocoRecord).structured_core_services)
         IN  IF ~servicesArray.ok THEN "unable"
             ELSE IF servicesArray.isArray /\ Len(servicesArray.items) > 0 THEN "list"
             ELSE "inProgress"
    ELSE IF ~isLoading /\ error = None /\ showNoDataMessage THEN "placeholder"
    ELSE "none"

\* companyNameFromAPI ("" stands for null and undefined)
companyNameFromAPI ==
    IF hasData
    THEN (IF TheValue(currentNocoRecord).organization_name # ""
          THEN TheValue(currentNocoRecord).organization_name
          ELSE TheValue(currentNocoRecord).company_short)
    ELSE ""

\* companyName, shown in the sections of the dashboard content and in the title
companyName ==
    IF companyNameFromAPI # "" THEN companyNameFromAPI
    ELSE IF hasData THEN "Company" ELSE "Your Company"

\* companyNameForGreeting, shown in the greeting of a loaded record
companyNameForGreeting ==
    IF hasData /\ TheValue(currentNocoRecord).organization_name # ""
    THEN TheValue(currentNocoRecord).organization_name
    ELSE "your organization"

\* the company name in the header after "Welcome, <firstName>": left out
\* ("") when companyName is one of the two fallback literals
headerCompanyName ==
    IF companyName # "Your Company" /\ companyName # "Company" /\ companyName # ""
    THEN companyName
    ELSE ""

\* an element of rendered HTML: its tag, its inline event handler attributes
\* and its text
HtmlElement(tag, handlers, text) == [tag |-> tag, handlers |-> handlers, text |-> text]

\* marked.parse over ReportTexts: markdown becomes elements, and HTML that is
\* written in the markdown is copied to the output as it is (marked does not
\* sanitize)
MarkedParse(markdown) ==
    CASE markdown = "# Findings" -> << HtmlElement("h1", {}, "Findings") >>
      [] markdown = "Sales grew." -> << HtmlElement("p", {}, "Sales grew.") >>
      [] markdown = "<script>alert(1)</script>" ->
            << HtmlElement("script", {}, "alert(1)") >>
      [] markdown = "<img src=x onerror=alert(1)>" ->
            << HtmlElement("p", {}, ""), HtmlElement("img", {"onerror"}, "") >>
      [] OTHER -> << >>

\* fullDeepResearchHtml, the inner HTML of full-deep-research-content
fullDeepResearchHtml ==
    IF hasData /\ TheValue(currentNocoRecord).deep_reaserach # ""
    THEN MarkedParse(TheValue(currentNocoRecord).deep_reaserach)
    ELSE << HtmlElement("p", {},
              "Your comprehensive research report will be accessible here, providing in-depth analysis and strategic recommendations.") >>

\* displayDashboardContent, the condition of the dashboard-content block
displayDashboardContent == hasData

\* the page regions below the input area that the render shows: the loader,
\* the error banner, the informational message, the dashboard content; a
\* render that throws shows none of them
RegionsShown ==
    IF RenderThrows THEN {}
    ELSE {r \in {"loader"} : isLoading}
         \cup {r \in {"error"} : error # None /\ ~isLoading}
         \cup {r \in {"info"} : showNoDataMessage /\ ~isLoading /\ error = None /\ ~hasData}
         \cup {r \in {"content"} : displayDashboardContent}

\* variant: input and button are disabled only while loading
inputDisabled_LoadingOnly == isLoading

\* disabled attribute of the input and of the button
inputDisabled == isLoading \/ wpConfig = None

\* variant: isLoading is not among the dependencies
EffectDeps_NoLoading(u, c, l) == << u, c >>

\* dependencies [visitorIdFromUrl, wpConfig, fetchAndRenderDashboard, isLoading];
\* fetchAndRenderDashboard is re-created exactly when wpConfig changes
EffectDeps(u, c, l) == << u, c, l >>

Init ==
    /\ apiUrl \in BOOLEAN
    /\ mounted = FALSE
    /\ urlId \in Ids \cup {NoId}
    /\ pendingPush = NoPush
    /\ wpConfig = None
    /\ visitorIdInput = ""
    /\ currentNocoRecord = None
    /\ isLoading = FALSE
    /\ error = None
    /\ showNoDataMessage = TRUE
    /\ currentStatusMessage = Msg0("Enter a Visitor ID to begin.")
    /\ lastFetchedIdRef = NoId
    /\ configFetchedRef = FALSE
    /\ configInFlight = 0
    /\ inFlight = {}
    /\ effectPending = FALSE
    /\ configRequests = 0
    /\ recordRequests = 0
    /\ fetchCalls = 0
    /\ userEvents = 0
    /\ lastOk = [i \in Ids |-> None]
    /\ staleRecordApplied = FALSE
    /\ configOutcome = ""
    /\ lastOutcome = NoOutcome
    /\ lastEvent = "init"

(* --------------------------- configuration ---------------------------- *)

\* variant: the flag is never set
ConfigFetchEffect_NoFlag(s) ==
    IF ~s.configFetchedRef /\ apiUrl
    THEN [s EXCEPT !.requests = @ + 1,
                   !.pending = @ + 1]
    ELSE IF ~apiUrl
         THEN [s EXCEPT !.error = Some(Msg0("Dashboard Error: API URL configuration is missing."))]
         ELSE s

\* variant: the request is sent without looking at WP_API_URL
ConfigFetchEffect_NoUrlCheck(s) ==
    IF ~s.configFetchedRef
    THEN [s EXCEPT !.configFetchedRef = TRUE,
                   !.requests = @ + 1,
                   !.pending = @ + 1]
    ELSE s

\* body of the configuration effect, on the values it reads and writes
ConfigFetchEffect(s) ==
    IF ~s.configFetchedRef /\ apiUrl
    THEN [s EXCEPT !.configFetchedRef = TRUE,
                   !.requests = @ + 1,
                   !.pending = @ + 1]
    ELSE IF ~apiUrl
         THEN [s EXCEPT !.error = Some(Msg0("Dashboard Error: API URL configuration is missing."))]
         ELSE s

\* how often React runs the mount effects: once, or twice under StrictMode
MountEffectRuns == {1, 2}

\* page mount: the effects run for the first time; the data fetch effect finds
\* wpConfig null and does nothing
Mount(runs) ==
    /\ ~mounted
    /\ runs \in MountEffectRuns
    /\ mounted' = TRUE
    /\ LET s0 == [configFetchedRef |-> configFetchedRef, requests |-> configRequests,
                  pending |-> configInFlight, error |-> error]
           s1 == ConfigFetchEffect(s0)
           s2 == IF runs = 2 THEN ConfigFetchEffect(s1) ELSE s1
       IN  /\ configFetchedRef' = s2.configFetchedRef
           /\ configRequests' = s2.requests
           /\ configInFlight' = s2.pending
           /\ error' = s2.error
    /\ lastEvent' = "mount"
    /\ lastOutcome' = NoOutcome
    /\ UNCHANGED << apiUrl, urlId, pendingPush, wpConfig, visitorIdInput,
                    currentNocoRecord, isLoading, showNoDataMessage,
                    currentStatusMessage, lastFetchedIdRef, inFlight, effectPending,
                    recordRequests, fetchCalls, userEvents, lastOk, staleRecordApplied, configOutcome >>

\* a suspended fetchVisitorDataViaProxy call that never reached axios.post
\* resumes before any other event
MicrotaskPending == \E r \in inFlight : r.kind = "rejected"

\* the page can take the next event
Idle == mounted /\ ~effectPending /\ ~MicrotaskPending

\* the message of the error thrown inside fetchWpConfig
ConfigErrorMessage(o) ==
    IF o.k = "failure"
    THEN (IF o.m # "" THEN o.m ELSE "Failed to fetch valid WP configuration.")
    ELSE o.m

\* fetchWpConfig resumes after axios.get settled
ConfigResponse(o) ==
    /\ Idle
    /\ configInFlight > 0
    /\ configInFlight' = configInFlight - 1
    /\ IF o.k \in {"success", "successNoData"}
       THEN /\ wpConfig' = o.payload
            /\ error' = error
       ELSE /\ wpConfig' = wpConfig
            /\ error' = Some(Msg1("Dashboard Error: Could not load configuration from server. %",
                                  ConfigErrorMessage(o)))
    /\ effectPending' = (EffectDeps(urlId, wpConfig', isLoading)
                            # EffectDeps(urlId, wpConfig, isLoading))
    /\ configOutcome' = o.k
    /\ lastEvent' = "configResponse"
    /\ lastOutcome' = NoOutcome
    /\ UNCHANGED << apiUrl, mounted, urlId, pendingPush, visitorIdInput,
                    currentNocoRecord, isLoading, showNoDataMessage,
                    currentStatusMessage, lastFetchedIdRef, configFetchedRef, inFlight,
                    configRequests, recordRequests, fetchCalls, userEvents, lastOk, staleRecordApplied >>

(* ---------------------------- record fetch ---------------------------- *)

\* variant: the token is not checked
ProxyConfigPresent_NoNonceCheck(c) ==
    c # None /\ TheValue(c).ajax_url # ""

\* the configuration passes the check at the head of fetchVisitorDataViaProxy
ProxyConfigPresent(c) ==
    c # None /\ TheValue(c).ajax_url # "" /\ TheValue(c).nonce # ""

\* variant: the proxy flag is not checked
ProxyEnabled_NoFlagCheck(c) == c # None

\* the configuration passes the check at the head of the try block of
\* fetchAndRenderDashboard
ProxyEnabled(c) == c # None /\ TheValue(c).useAjaxProxy

\* fetchAndRenderDashboard(id), id non-empty, up to its first suspension.
\* rec is the value of currentNocoRecord that the caller leaves in the batch.
FetchAndRenderStart(id, rec) ==
    /\ fetchCalls' = fetchCalls + 1
    /\ currentStatusMessage' = Msg1("Fetching personalized insights for ID: %...", id)
    /\ IF ~ProxyEnabled(wpConfig)
       THEN \* thrown before the first await: catch and finally run in the same batch
            /\ error' = Some(Msg0("WordPress configuration error. Cannot fetch data."))
            /\ currentNocoRecord' = None
            /\ showNoDataMessage' = TRUE
            /\ isLoading' = FALSE
            /\ lastOutcome' = [k |-> "syncThrow", id |-> id, rec |-> None, m |-> ""]
            /\ UNCHANGED << inFlight, recordRequests >>
       ELSE /\ isLoading' = TRUE
            /\ lastOutcome' = NoOutcome
            /\ error' = None
            /\ showNoDataMessage' = FALSE
            /\ currentNocoRecord' = rec
            /\ IF ProxyConfigPresent(wpConfig)
               THEN /\ inFlight' = inFlight \cup
                          { [seq |-> fetchCalls + 1, visitorId |-> id, kind |-> "post",
                             nonce |-> TheValue(wpConfig).nonce,
                             url |-> TheValue(wpConfig).ajax_url] }
                    /\ recordRequests' = recordRequests + 1
               ELSE /\ inFlight' = inFlight \cup
                          { [seq |-> fetchCalls + 1, visitorId |-> id, kind |-> "rejected",
                             nonce |-> "", url |-> ""] }
                    /\ recordRequests' = recordRequests

\* the error that reaches the catch block of fetchVisitorDataViaProxy for an
\* outcome of axios.post other than success: the Error thrown in the try block
\* for success:false, or the error axios rejects with.  body is what the
\* handler looks at in err.response.data: "message" (data.data.message is
\* set), "nonceText" (a string that holds "Nonce"), "other"
CaughtError(o) ==
    CASE o.k = "failure" ->
            [response |-> FALSE, request |-> FALSE, status |-> "", body |-> "other",
             bodyMessage |-> "",
             message |-> IF o.m # "" THEN o.m
                         ELSE "Failed to fetch data (server indicated failure)."]
      [] o.k = "httpMessage" ->
            [response |-> TRUE, request |-> TRUE, status |-> o.status, body |-> "message",
             bodyMessage |-> o.m, message |-> "Request failed"]
      [] o.k = "httpNonce" ->
            [response |-> TRUE, request |-> TRUE, status |-> o.status, body |-> "nonceText",
             bodyMessage |-> "", message |-> "Request failed"]
      [] o.k = "httpOther" ->
            [response |-> TRUE, request |-> TRUE, status |-> o.status, body |-> "other",
             bodyMessage |-> "", message |-> "Request failed"]
      [] o.k = "noResponse" ->
            [response |-> FALSE, request |-> TRUE, status |-> "", body |-> "other",
             bodyMessage |-> "", message |-> "Network Error"]
      [] OTHER ->
            [response |-> FALSE, request |-> FALSE, status |-> "", body |-> "other",
             bodyMessage |-> "", message |-> o.m]

\* variant: a response whose text holds "Nonce" gets the text of any other
\* server error
CatchMessage_NoNonceBranch(err) ==
    IF err.response
    THEN (IF err.body = "message"
          THEN Msg("Server error (%). %", err.status, err.bodyMessage)
          ELSE Msg1("Server error (%). Please check server logs for more details.",
                    err.status))
    ELSE IF err.request
    THEN Msg0("No response from WordPress server. Is it running and accessible?")
    ELSE Msg0(IF err.message # "" THEN err.message
              ELSE "An error occurred while fetching data.")

\* variant: an error without response and without request loses its message
CatchMessage_DropsMessage(err) ==
    IF err.response
    THEN (IF err.body = "message"
          THEN Msg("Server error (%). %", err.status, err.bodyMessage)
          ELSE IF err.body = "nonceText"
          THEN Msg1("Server error (%). Security check failed. Please try refreshing or contact support if this persists.",
                    err.status)
          ELSE Msg1("Server error (%). Please check server logs for more details.",
                    err.status))
    ELSE IF err.request
    THEN Msg0("No response from WordPress server. Is it running and accessible?")
    ELSE Msg0("An error occurred while fetching data.")

\* the message that the catch block of fetchVisitorDataViaProxy re-throws
CatchMessage(err) ==
    IF err.response
    THEN (IF err.body = "message"
          THEN Msg("Server error (%). %", err.status, err.bodyMessage)
          ELSE IF err.body = "nonceText"
          THEN Msg1("Server error (%). Security check failed. Please try refreshing or contact support if this persists.",
                    err.status)
          ELSE Msg1("Server error (%). Please check server logs for more details.",
                    err.status))
    ELSE IF err.request
    THEN Msg0("No response from WordPress server. Is it running and accessible?")
    ELSE Msg0(IF err.message # "" THEN err.message
              ELSE "An error occurred while fetching data.")

\* the message of the error that fetchVisitorDataViaProxy throws for an
\* outcome of axios.post other than success
ProxyErrorMessage(o) == CatchMessage(CaughtError(o))

\* record.first_name || 'Valued Lead'
StatusFirstName(r) == IF r.first_name # "" THEN r.first_name ELSE "Valued Lead"

\* variant: no fallback literal, the name is undefined ("") when both fields
\* are missing
StatusCompanyName_NoFallback(r) ==
    IF r.organization_name # "" THEN r.organization_name ELSE r.company_short

\* record['organization/name'] || record.company_short || 'Your Company'
StatusCompanyName(r) ==
    IF r.organization_name # "" THEN r.organization_name
    ELSE IF r.company_short # "" THEN r.company_short
    ELSE "Your Company"

\* variant: an empty result is reported with the message of an unexpected error
ApplyRecord_EmptyAsFailure(req, rec) ==
    IF rec # None
    THEN /\ currentNocoRecord' = rec
         /\ currentStatusMessage' =
                Msg("Showing personalized data for: % from %",
                    StatusFirstName(TheValue(rec)), StatusCompanyName(TheValue(rec)))
         /\ showNoDataMessage' = FALSE
         /\ error' = error
    ELSE /\ error' = Some(Msg0("An unexpected error occurred while loading data."))
         /\ currentNocoRecord' = None
         /\ showNoDataMessage' = TRUE
         /\ currentStatusMessage' = currentStatusMessage

\* variant: the returned record is merged into the stored one, so a field
\* that the new record lacks keeps its earlier value
ApplyRecord_MergeIntoPrevious(req, rec) ==
    IF rec # None
    THEN /\ currentNocoRecord' =
                IF currentNocoRecord = None THEN rec
                ELSE Some([f \in DOMAIN TheValue(rec) |->
                             IF TheValue(rec)[f] # "" THEN TheValue(rec)[f]
                             ELSE TheValue(currentNocoRecord)[f]])
         /\ currentStatusMessage' =
                Msg("Showing personalized data for: % from %",
                    StatusFirstName(TheValue(rec)), StatusCompanyName(TheValue(rec)))
         /\ showNoDataMessage' = FALSE
         /\ error' = error
    ELSE /\ error' = Some(Msg1(NoDataText, req.visitorId))
         /\ currentNocoRecord' = None
         /\ showNoDataMessage' = TRUE
         /\ currentStatusMessage' = currentStatusMessage

\* the part of fetchAndRenderDashboard after the await, for a returned value
ApplyRecord(req, rec) ==
    IF rec # None
    THEN /\ currentNocoRecord' = rec
         /\ currentStatusMessage' =
                Msg("Showing personalized data for: % from %",
                    StatusFirstName(TheValue(rec)), StatusCompanyName(TheValue(rec)))
         /\ showNoDataMessage' = FALSE
         /\ error' = error
    ELSE /\ error' = Some(Msg1(NoDataText, req.visitorId))
         /\ currentNocoRecord' = None
         /\ showNoDataMessage' = TRUE
         /\ currentStatusMessage' = currentStatusMessage

\* the catch block of fetchAndRenderDashboard
ApplyFailure(m) ==
    /\ error' = Some(IF m.t # "" THEN m
                     ELSE Msg0("An unexpected error occurred while loading data."))
    /\ currentNocoRecord' = None
    /\ showNoDataMessage' = TRUE
    /\ currentStatusMessage' = currentStatusMessage

\* variant: fetchVisitorDataViaProxy swallows a failure and returns nothing
ApplyOutcome_FailureAsEmpty(req, o) == ApplyRecord(req, o.rec)

\* fetchAndRenderDashboard after the await: the try block for a returned
\* value, the catch block for a thrown error
ApplyOutcome(req, o) ==
    IF o.k \in {"record", "empty"}
    THEN ApplyRecord(req, o.rec)
    ELSE ApplyFailure(ProxyErrorMessage(o))

\* variant: setIsLoading(false) closes the try block, so it is skipped when
\* the call failed
LoadingAfterFetch_OnlyOnSuccess(failed) == failed

\* isLoading as the finally block of fetchAndRenderDashboard leaves it
LoadingAfterFetch(failed) == FALSE

\* fetchVisitorDataViaProxy and fetchAndRenderDashboard resume with the
\* outcome o of axios.post
FetchSettles(req, o) ==
    /\ Idle
    /\ req \in inFlight
    /\ req.kind = "post"
    /\ inFlight' = inFlight \ {req}
    /\ ApplyOutcome(req, o)
    /\ isLoading' = LoadingAfterFetch(o.k \notin {"record", "empty"})
    /\ lastOutcome' = [k |-> o.k, id |-> req.visitorId, rec |-> o.rec, m |-> o.m]
    /\ lastOk' = IF o.k = "record" THEN [lastOk EXCEPT ![req.visitorId] = o.rec]
                 ELSE lastOk
    /\ effectPending' = (EffectDeps(urlId, wpConfig, isLoading')
                            # EffectDeps(urlId, wpConfig, isLoading))
    /\ staleRecordApplied' = (staleRecordApplied \/ (o.k = "record" /\ req.visitorId # urlId))
    /\ lastEvent' = "fetchResponse"
    /\ UNCHANGED << apiUrl, mounted, urlId, pendingPush, wpConfig,
                    visitorIdInput, lastFetchedIdRef, configFetchedRef, configInFlight,
                    configRequests, recordRequests, fetchCalls, userEvents,
                    configOutcome >>

\* axios.post settled with one of the outcomes of FetchOutcomes
FetchResponse(req, o) ==
    /\ o \in FetchOutcomes(req.visitorId)
    /\ FetchSettles(req, o)

\* fetchVisitorDataViaProxy threw before axios.post: fetchAndRenderDashboard
\* resumes in its catch block
FetchRejected(req) ==
    /\ mounted
    /\ ~effectPending
    /\ req \in inFlight
    /\ req.kind = "rejected"
    /\ inFlight' = inFlight \ {req}
    /\ ApplyFailure(Msg0("WordPress configuration (ajax_url or nonce) is missing."))
    /\ isLoading' = LoadingAfterFetch(TRUE)
    /\ lastOutcome' = [k |-> "rejected", id |-> req.visitorId, rec |-> None, m |-> ""]
    /\ effectPending' = (EffectDeps(urlId, wpConfig, isLoading')
                            # EffectDeps(urlId, wpConfig, isLoading))
    /\ lastEvent' = "fetchRejected"
    /\ UNCHANGED << apiUrl, mounted, urlId, pendingPush, wpConfig,
                    visitorIdInput, lastFetchedIdRef, configFetchedRef, configInFlight,
                    configRequests, recordRequests, fetchCalls, userEvents, lastOk, staleRecordApplied, configOutcome >>

\* the effect goes on only with a loaded configuration
ConfigLoaded == wpConfig # None

\* variant: the effect does not look at isLoading
ShouldFetchForUrl_NoLoadingGuard == urlId # lastFetchedIdRef

\* the effect starts a fetch for the identifier of the URL
ShouldFetchForUrl == ~isLoading /\ urlId # lastFetchedIdRef

\* the data fetch trigger effect
DataFetchEffect ==
    /\ mounted
    /\ effectPending
    /\ IF ConfigLoaded
       THEN IF urlId # NoId
            THEN /\ visitorIdInput' = urlId
                 /\ IF ShouldFetchForUrl
                    THEN /\ lastFetchedIdRef' = urlId
                         /\ FetchAndRenderStart(urlId, None)
                    ELSE /\ lastOutcome' = NoOutcome
                         /\ UNCHANGED << lastFetchedIdRef, currentNocoRecord, error,
                                         showNoDataMessage, currentStatusMessage, isLoading,
                                         inFlight, recordRequests, fetchCalls >>
            ELSE /\ currentNocoRecord' = None
                 /\ error' = None
                 /\ showNoDataMessage' = TRUE
                 /\ currentStatusMessage' = Msg0("Enter a Visitor ID to begin.")
                 /\ visitorIdInput' = ""
                 /\ lastFetchedIdRef' = NoId
                 /\ lastOutcome' = NoOutcome
                 /\ UNCHANGED << isLoading, inFlight, recordRequests, fetchCalls >>
       ELSE /\ lastOutcome' = NoOutcome
            /\ UNCHANGED << visitorIdInput, lastFetchedIdRef, currentNocoRecord, error,
                            showNoDataMessage, currentStatusMessage, isLoading, inFlight,
                            recordRequests, fetchCalls >>
    /\ effectPending' = (EffectDeps(urlId, wpConfig, isLoading')
                            # EffectDeps(urlId, wpConfig, isLoading))
    /\ lastEvent' = "effect"
    /\ UNCHANGED << apiUrl, mounted, urlId, pendingPush, wpConfig,
                    configFetchedRef, configInFlight, configRequests, userEvents, lastOk, staleRecordApplied, configOutcome >>

(* ----------------------------- user events ---------------------------- *)

\* variant: submitting the loaded identifier again does nothing
ResubmitLoadedId_NoOp(newVisitorId) ==
    /\ lastOutcome' = NoOutcome
    /\ UNCHANGED << lastFetchedIdRef, pendingPush, currentNocoRecord,
                    error, showNoDataMessage, currentStatusMessage,
                    isLoading, inFlight, recordRequests, fetchCalls >>

\* handleFetchButtonClick for the identifier that is loaded and shown without
\* error: the branch that fetches again at once
ResubmitLoadedId(newVisitorId) ==
    IF ~isLoading
    THEN /\ lastFetchedIdRef' = NoId
         /\ pendingPush' = pendingPush
         /\ FetchAndRenderStart(newVisitorId, currentNocoRecord)
    ELSE /\ lastOutcome' = NoOutcome
         /\ UNCHANGED << lastFetchedIdRef, pendingPush, currentNocoRecord,
                         error, showNoDataMessage, currentStatusMessage,
                         isLoading, inFlight, recordRequests, fetchCalls >>

\* handleFetchButtonClick (button click, or Enter in the input)
HandleFetchButtonClick ==
    /\ Idle
    /\ ~inputDisabled
    /\ userEvents < MaxUserEvents
    /\ userEvents' = userEvents + 1
    /\ LET newVisitorId == Trim(visitorIdInput)
       IN  IF newVisitorId # ""
           THEN IF newVisitorId # lastFetchedIdRef \/ error # None
                                                   \/ currentNocoRecord = None
                THEN /\ lastFetchedIdRef' = NoId
                     /\ pendingPush' = QueryOfPush(newVisitorId)
                     /\ lastOutcome' = NoOutcome
                     /\ UNCHANGED << currentNocoRecord, error, showNoDataMessage,
                                     currentStatusMessage, isLoading, inFlight,
                                     recordRequests, fetchCalls >>
                ELSE ResubmitLoadedId(newVisitorId)
           ELSE /\ error' = Some(Msg0("Please enter a Visitor ID."))
                /\ currentStatusMessage' = Msg0("Please enter a Visitor ID.")
                /\ showNoDataMessage' = TRUE
                /\ currentNocoRecord' = None
                /\ lastFetchedIdRef' = NoId
                /\ pendingPush' = NoId
                /\ lastOutcome' = NoOutcome
                /\ UNCHANGED << isLoading, inFlight, recordRequests, fetchCalls >>
    /\ effectPending' = (EffectDeps(urlId, wpConfig, isLoading')
                            # EffectDeps(urlId, wpConfig, isLoading))
    /\ lastEvent' = "click"
    /\ UNCHANGED << apiUrl, mounted, urlId, wpConfig, visitorIdInput,
                    configFetchedRef, configInFlight, configRequests, lastOk, staleRecordApplied, configOutcome >>

\* variant: typing also dismisses the error
HandleInputChange_ClearsError(t) ==
    /\ Idle
    /\ ~inputDisabled
    /\ userEvents < MaxUserEvents
    /\ t \in InputTexts
    /\ t # visitorIdInput
    /\ userEvents' = userEvents + 1
    /\ visitorIdInput' = t
    /\ error' = None
    /\ lastEvent' = "input"
    /\ lastOutcome' = NoOutcome
    /\ UNCHANGED << apiUrl, mounted, urlId, pendingPush, wpConfig,
                    currentNocoRecord, isLoading, showNoDataMessage,
                    currentStatusMessage, lastFetchedIdRef, configFetchedRef,
                    configInFlight, inFlight, effectPending, configRequests,
                    recordRequests, fetchCalls, lastOk, staleRecordApplied, configOutcome >>

\* handleInputChange
HandleInputChange(t) ==
    /\ Idle
    /\ ~inputDisabled
    /\ userEvents < MaxUserEvents
    /\ t \in InputTexts
    /\ t # visitorIdInput
    /\ userEvents' = userEvents + 1
    /\ visitorIdInput' = t
    /\ lastEvent' = "input"
    /\ lastOutcome' = NoOutcome
    /\ UNCHANGED << apiUrl, mounted, urlId, pendingPush, wpConfig,
                    currentNocoRecord, isLoading, error, showNoDataMessage,
                    currentStatusMessage, lastFetchedIdRef, configFetchedRef,
                    configInFlight, inFlight, effectPending, configRequests,
                    recordRequests, fetchCalls, lastOk, staleRecordApplied, configOutcome >>

\* the visitor_id query parameter changes from outside the page's handlers
\* (hydration of router.query, history navigation, a link)
UrlChange(v) ==
    /\ Idle
    /\ userEvents < MaxUserEvents
    /\ v \in Ids \cup {NoId}
    /\ v # urlId
    /\ userEvents' = userEvents + 1
    /\ urlId' = v
    /\ effectPending' = TRUE
    /\ lastEvent' = "urlChange"
    /\ lastOutcome' = NoOutcome
    /\ UNCHANGED << apiUrl, mounted, pendingPush, wpConfig, visitorIdInput,
                    currentNocoRecord, isLoading, error, showNoDataMessage,
                    currentStatusMessage, lastFetchedIdRef, configFetchedRef,
                    configInFlight, inFlight, configRequests, recordRequests,
                    fetchCalls, lastOk, staleRecordApplied, configOutcome >>

\* a router.push issued by handleFetchButtonClick completes
RouteChangeComplete ==
    /\ Idle
    /\ pendingPush # NoPush
    /\ urlId' = pendingPush
    /\ pendingPush' = NoPush
    /\ effectPending' = (urlId' # urlId)
    /\ lastEvent' = "routeChange"
    /\ lastOutcome' = NoOutcome
    /\ UNCHANGED << apiUrl, mounted, wpConfig, visitorIdInput,
                    currentNocoRecord, isLoading, error, showNoDataMessage,
                    currentStatusMessage, lastFetchedIdRef, configFetchedRef,
                    configInFlight, inFlight, configRequests, recordRequests,
                    fetchCalls, userEvents, lastOk, staleRecordApplied, configOutcome >>

(* --------------------------- specification ---------------------------- *)

Next ==
    \/ \E runs \in MountEffectRuns : Mount(runs)
    \/ \E o \in ConfigOutcomes : ConfigResponse(o)
    \/ DataFetchEffect
    \/ \E req \in inFlight : \E o \in FetchOutcomes(req.visitorId) : FetchResponse(req, o)
    \/ \E req \in inFlight : FetchRejected(req)
    \/ HandleFetchButtonClick
    \/ \E t \in InputTexts : HandleInputChange(t)
    \/ \E v \in Ids \cup {NoId} : UrlChange(v)
    \/ RouteChangeComplete

Spec == Init /\ [][Next]_vars

\* React flushes a pending effect, a suspended call resumes, a route change
\* completes and every request settles; the user is under no obligation
FairSpec ==
    /\ Spec
    /\ WF_vars(\E runs \in MountEffectRuns : Mount(runs))
    /\ WF_vars(DataFetchEffect)
    /\ WF_vars(\E o \in ConfigOutcomes : ConfigResponse(o))
    /\ WF_vars(\E req \in inFlight :
                  \E o \in FetchOutcomes(req.visitorId) : FetchResponse(req, o))
    /\ WF_vars(\E req \in inFlight : FetchRejected(req))
    /\ WF_vars(RouteChangeComplete)

(* ------------------- specification of the render --------------------- *)

\* the configuration outcome of a working installation
GoodConfigOutcome ==
    [k |-> "success", m |-> "",
     payload |-> Some([ajax_url |-> "/wp-admin/admin-ajax.php", nonce |-> "n1",
                       useAjaxProxy |-> TRUE])]

\* axios.post answered success with the record rec
RecordOutcome(rec) == [k |-> "record", rec |-> Some(rec), m |-> "", status |-> ""]

\* the page is opened with an identifier in the URL
RenderInit == Init /\ apiUrl /\ urlId \in Ids

\* the page loads its configuration and then one record, which can be any
\* record of RichRecordsOf
RenderNext ==
    \/ Mount(1)
    \/ ConfigResponse(GoodConfigOutcome)
    \/ DataFetchEffect
    \/ \E req \in inFlight : \E rec \in RichRecordsOf(req.visitorId) :
           FetchSettles(req, RecordOutcome(rec))

RenderSpec == RenderInit /\ [][RenderNext]_vars

(* ------------------------------- claims ------------------------------- *)

\* the page is between events: no effect to flush, no continuation to resume
Settled == mounted /\ ~effectPending /\ ~MicrotaskPending

\* nothing is under way: the page rests until the next user event
Resting == Settled /\ inFlight = {} /\ configInFlight = 0 /\ pendingPush = NoPush

\* C1: a record that is displayed (stored record non-empty, not loading, no
\* error) is the record of the most recent successful fetch for the identifier
\* currently in the URL; in particular the response of a fetch started for
\* identifier A never puts A's record on display after the URL identifier has
\* changed to B.  Stated for the states that a fetch response produces.
C1_StaleFetchNeverDisplayed ==
    (hasData /\ lastEvent = "fetchResponse")
        => /\ urlId # NoId
           /\ currentNocoRecord = lastOk[urlId]

\* C2: after triggers for identifier A and then identifier B with A's fetch
\* still unresolved, the record that ends up on display is B's: once the page
\* has settled, a displayed record is the latest record fetched for the
\* identifier of the URL, also when a response for A was applied after the URL
\* had moved on.
C2_FinalRecordIsLatestTrigger ==
    (Settled /\ hasData)
        => /\ urlId # NoId
           /\ TheValue(currentNocoRecord).visitor = urlId
           /\ currentNocoRecord = lastOk[urlId]

\* A's record came back after the URL had changed to B, and B's record is shown
C2_Witness ==
    /\ Resting
    /\ hasData
    /\ staleRecordApplied
    /\ urlId = "B"
    /\ lastOk["A"] # None
    /\ TheValue(currentNocoRecord).visitor = "B"

\* the axios.post calls that have not settled
PostsInFlight == { r \in inFlight : r.kind = "post" }

\* C3: at most one record request is in flight at any time; while one is in
\* flight the page is loading, so a URL change starts no second request and
\* the input and button are disabled.
C3_AtMostOneRequestInFlight ==
    /\ Cardinality(PostsInFlight) <= 1
    /\ PostsInFlight # {} => isLoading /\ inputDisabled

\* the URL identifier changed during a fetch, the effect has run, and still
\* only the first request is in flight
C3_Witness ==
    /\ Settled
    /\ urlId = "B"
    /\ lastEvent = "effect"
    /\ \E r \in PostsInFlight : r.visitorId = "A"

\* the URL identifier is b while the request for a is still in flight
C4_ChangedDuringFetch(a, b) ==
    /\ urlId = b
    /\ \E r \in PostsInFlight : r.visitorId = a

\* the request for b is in flight and the marker names b
C4_FetchStarted(b) ==
    /\ lastFetchedIdRef = b
    /\ \E r \in PostsInFlight : r.visitorId = b

\* the page rests on the outcome of the fetch for b
C4_RestsOn(b) ==
    /\ Settled
    /\ inFlight = {}
    /\ ~isLoading
    /\ urlId = b
    /\ lastFetchedIdRef = b
    /\ \/ hasData /\ TheValue(currentNocoRecord).visitor = b
       \/ error # None

\* C4: when the URL identifier changes from A to B while A's fetch is in
\* flight, the effect that follows the resolution of A's fetch starts a fetch
\* for B, and the page comes to rest on B's outcome with the last-fetched
\* marker equal to B, unless the URL identifier changes again first.
C4_ChangedIdentifierIsFetchedNext ==
    /\ [][ ( /\ lastEvent = "fetchResponse"
             /\ effectPending
             /\ urlId # NoId
             /\ urlId # lastFetchedIdRef
             /\ lastEvent' = "effect" )
           => C4_FetchStarted(urlId)' ]_vars
    /\ \A a \in Ids : \A b \in Ids \ {a} :
          C4_ChangedDuringFetch(a, b) ~> (C4_RestsOn(b) \/ urlId # b)

\* A's record arrived after the URL had changed to B, and the first request
\* for B is now in flight
C4_Witness ==
    /\ staleRecordApplied
    /\ urlId = "B"
    /\ lastFetchedIdRef = "B"
    /\ lastOk["B"] = None
    /\ isLoading
    /\ \E r \in PostsInFlight : r.visitorId = "B"

\* this step is a submit of the identifier whose record is loaded and
\* displayed without error
C5_ResubmitsLoadedId ==
    /\ hasData
    /\ Trim(visitorIdInput) # ""
    /\ Trim(visitorIdInput) = lastFetchedIdRef
    /\ userEvents' = userEvents + 1
    /\ lastEvent' = "click"

C6_ResubmitAfterFailureRefetches ==
    ( /\ lastEvent = "routeChange"
      /\ urlId # NoId
      /\ error # None
      /\ ProxyEnabled(wpConfig)
      /\ ProxyConfigPresent(wpConfig) )
        => (effectPending \/ PostsInFlight # {})

\* C7: no record request is issued before the configuration has been loaded
\* successfully: whenever a request has been issued, the configuration
\* endpoint has answered success and a configuration with endpoint and token
\* is stored, and a request in flight carries that endpoint and token.
C7_NoRequestBeforeConfig ==
    /\ recordRequests > 0 =>
          /\ configOutcome = "success"
          /\ ProxyConfigPresent(wpConfig)
    /\ \A r \in PostsInFlight :
          /\ wpConfig # None
          /\ r.nonce # "" /\ r.nonce = TheValue(wpConfig).nonce
          /\ r.url # "" /\ r.url = TheValue(wpConfig).ajax_url

\* the effect has run for a changed URL identifier while the configuration
\* request was still outstanding, and nothing was requested
C7_Witness ==
    /\ lastEvent = "effect"
    /\ configInFlight > 0
    /\ wpConfig = None
    /\ urlId = "B"
    /\ userEvents >= 2
    /\ recordRequests = 0

\* C8: at most one configuration request is issued during a page lifetime.
C8_AtMostOneConfigRequest ==
    /\ configRequests <= 1
    /\ configInFlight <= 1

\* the configuration was loaded, record fetches have failed and the user has
\* acted since: still one configuration request
C8_Witness ==
    /\ configFetchedRef
    /\ configRequests = 1
    /\ recordRequests >= 2
    /\ error # None
    /\ userEvents >= 2

\* C9: when the configuration load fails the page enters error with the
\* failure message stored and stays there: input and submit are disabled and
\* no record request is issued, whatever the URL identifier does.
C9_ConfigFailureIsFinal ==
    configOutcome \in {"failure", "transport"} =>
        /\ error # None
        /\ TheValue(error).t = "Dashboard Error: Could not load configuration from server. %"
        /\ TheValue(error).a # ""
        /\ wpConfig = None
        /\ inputDisabled
        /\ ~isLoading
        /\ ~hasData
        /\ recordRequests = 0
        /\ inFlight = {}

\* the configuration load failed, the URL identifier has changed since and the
\* effect has run
C9_Witness ==
    /\ configOutcome = "failure"
    /\ lastEvent = "effect"
    /\ urlId = "B"
    /\ userEvents >= 2
    /\ error # None

\* C10: without a base URL the page enters error at once and never issues a
\* network request, neither for the configuration nor for a record.
C10_NoBaseUrlNoRequests ==
    (mounted /\ ~apiUrl) =>
        /\ error = Some(Msg0("Dashboard Error: API URL configuration is missing."))
        /\ configRequests = 0
        /\ configInFlight = 0
        /\ recordRequests = 0
        /\ inFlight = {}
        /\ wpConfig = None

\* no base URL, and the URL identifier has changed twice since mount
C10_Witness ==
    /\ mounted
    /\ ~apiUrl
    /\ urlId = "A"
    /\ userEvents >= 2
    /\ lastEvent = "effect"

\* C11: a configuration response that reports success without ajax_url or
\* without nonce is treated as a failure: no such configuration is ever
\* stored, and once the response is handled the page shows an error instead
\* of being ready.
C11_IncompleteConfigIsFailure ==
    /\ wpConfig # None => ProxyConfigPresent(wpConfig)
    /\ (configOutcome = "success" /\ ~ProxyConfigPresent(wpConfig))
           => (wpConfig = None /\ error # None /\ appState = "error")

\* a cold start without an identifier in the URL whose configuration request,
\* if it has settled, reported success; no user event has happened
C12_ColdStart == apiUrl /\ urlId = NoId /\ userEvents = 0 /\ configOutcome \in {"", "success"}

\* C12: on a cold start without a URL identifier and with a successful
\* configuration load the page steps initializing -> initializing_config ->
\* ready and stays in ready; in ready the status text is "Enter a Visitor ID
\* to begin." and input and button are enabled, before ready they are
\* disabled.
C12_ColdStartReachesReady ==
    [][ (C12_ColdStart /\ C12_ColdStart')
          => /\ << appState, appState' >> \in
                    { << "initializing", "initializing_config" >>,
                      << "initializing_config", "ready" >>,
                      << "ready", "ready" >> }
             /\ appState # "ready" => inputDisabled
             /\ appState' = "ready"
                   => /\ currentStatusMessage' = Msg0("Enter a Visitor ID to begin.")
                      /\ ~inputDisabled'
                      /\ configOutcome' = "success" ]_vars

\* the page rests in ready after such a cold start
C12_Witness ==
    /\ C12_ColdStart
    /\ Resting
    /\ lastEvent = "effect"
    /\ appState = "ready"
    /\ ~inputDisabled

\* a cold start with an identifier in the URL, a complete configuration (once
\* loaded) and, if the record request has just settled, a non-empty record; no
\* user event has happened
C13_ColdStart ==
    /\ apiUrl /\ urlId \in Ids /\ userEvents = 0
    /\ configOutcome \in {"", "success"}
    /\ wpConfig # None => (ProxyConfigPresent(wpConfig) /\ ProxyEnabled(wpConfig))
    /\ lastOutcome.k \in {"none", "record"}

\* C13: on a cold start with a URL identifier, a successful configuration
\* load and a non-empty record the page steps initializing ->
\* initializing_config -> loading -> data_loaded, never through ready, and in
\* data_loaded the status text holds the first name and the company name of
\* the record.
C13_ColdStartReachesDataLoaded ==
    [][ (C13_ColdStart /\ C13_ColdStart')
          => /\ \/ appState' = appState
                \/ << appState, appState' >> \in
                       { << "initializing", "initializing_config" >>,
                         << "initializing_config", "loading" >>,
                         << "loading", "data_loaded" >> }
             /\ appState' = "data_loaded"
                   => currentStatusMessage' =
                         Msg("Showing personalized data for: % from %",
                             StatusFirstName(TheValue(currentNocoRecord')),
                             StatusCompanyName(TheValue(currentNocoRecord'))) ]_vars

\* the outcomes of a record fetch that are failures
FailureKinds ==
    {"failure", "httpMessage", "httpNonce", "httpOther", "noResponse", "setup",
     "rejected", "syncThrow"}

\* C14: a record fetch that returns success with an empty or absent record
\* leaves the page in no_data_for_id with loading off, the stored record empty
\* and the not-found message naming the identifier that was attempted; a
\* failed fetch leaves it in error, a different state; and the page stays in
\* no_data_for_id when the data fetch effect runs next for that identifier.
C14_EmptyResultIsNoData ==
    /\ [](lastOutcome.k = "empty"
             => /\ appState = "no_data_for_id"
                /\ ~isLoading
                /\ currentNocoRecord = None
                /\ lastOutcome.id \in Ids
                /\ error = Some(Msg1(NoDataText, lastOutcome.id))
                /\ showNoDataMessage)
    /\ [](lastOutcome.k \in FailureKinds => appState = "error")
    /\ [][ (lastOutcome.k = "empty" /\ urlId = lastOutcome.id
              /\ lastFetchedIdRef = urlId /\ lastEvent' = "effect")
             => (appState' = "no_data_for_id" /\ error' = error
                   /\ currentNocoRecord' = None /\ ~effectPending') ]_vars

\* the page rests in no_data_for_id for the identifier of the URL
C14_Witness ==
    /\ Resting
    /\ lastEvent = "effect"
    /\ appState = "no_data_for_id"
    /\ urlId \in Ids
    /\ error = Some(Msg1(NoDataText, urlId))
    /\ currentNocoRecord = None

\* the outcomes of axios.post in which no response arrived
TransportKinds == {"noResponse", "setup"}

\* what the status area shows after a not-found outcome for id: that path
\* leaves the status line alone and stores the not-found message
C15_NotFoundShown(id) == << currentStatusMessage, Some(Msg1(NoDataText, id)) >>

\* C15: a record fetch that fails at the transport layer leaves the page in
\* error with loading off; the status area then shows a non-empty status line
\* and a non-empty message, and differs from what it shows after a not-found
\* outcome for the same identifier; the page stays in error when the data
\* fetch effect runs next for that identifier.
C15_TransportFailureIsError ==
    /\ [](lastOutcome.k \in TransportKinds
             => /\ appState = "error"
                /\ ~isLoading
                /\ currentNocoRecord = None
                /\ StatusShown[1].t # ""
                /\ StatusShown[2] # None
                /\ TheValue(StatusShown[2]).t # ""
                /\ StatusShown # C15_NotFoundShown(lastOutcome.id))
    /\ [][ (lastOutcome.k \in TransportKinds /\ urlId = lastOutcome.id
              /\ lastFetchedIdRef = urlId /\ lastEvent' = "effect")
             => (appState' = "error" /\ StatusShown' = StatusShown
                   /\ ~effectPending') ]_vars

\* the page rests in error after the request for the URL identifier got no
\* response
C15_Witness ==
    /\ Resting
    /\ lastEvent = "effect"
    /\ appState = "error"
    /\ urlId \in Ids
    /\ lastFetchedIdRef = urlId
    /\ error = Some(Msg0("No response from WordPress server. Is it running and accessible?"))

\* C16: once the identifier has been removed from the URL and the data fetch
\* effect has run for that change, the stored record and the last-fetched
\* marker are cleared, the page is in ready as soon as nothing is loading, and
\* no record is displayed while the URL holds no identifier, also after the
\* response of a fetch that was in flight when the identifier was removed.
C16_ClearedUrlShowsNoRecord ==
    (ConfigLoaded /\ urlId = NoId
        /\ lastEvent \in {"effect", "fetchResponse", "fetchRejected", "click", "input"})
      => /\ ~hasData
         /\ lastEvent = "effect"
               => /\ currentNocoRecord = None
                  /\ lastFetchedIdRef = NoId
                  /\ ~isLoading => appState = "ready"

\* C17: in every state in which a record fetch is in flight the stored record
\* is empty.
C17_LoadingHasNoRecord ==
    (isLoading \/ inFlight # {}) => currentNocoRecord = None

\* C18: the stored record is replaced as a whole: a step changes it only to
\* empty or to the record that a fetch has just returned; right after a
\* successful fetch it is exactly the returned record, and right after a fetch
\* that ended in failure or without data it is empty.
C18_RecordReplacedWholesale ==
    /\ [](lastOutcome.k = "record"
             => (lastOutcome.rec # None /\ currentNocoRecord = lastOutcome.rec))
    /\ [](lastOutcome.k \in FailureKinds \cup {"empty"} => currentNocoRecord = None)
    /\ [][ \/ currentNocoRecord' \in {currentNocoRecord, None}
           \/ (lastOutcome'.k = "record" /\ currentNocoRecord' = lastOutcome'.rec) ]_vars

\* the record returned for B has been stored after a record for A had been
\* loaded earlier
C18_Witness ==
    /\ lastEvent = "fetchResponse"
    /\ lastOutcome.k = "record"
    /\ lastOutcome.id = "B"
    /\ lastOk["A"] # None
    /\ currentNocoRecord = lastOutcome.rec
    /\ TheValue(currentNocoRecord).visitor = "B"

\* C19: when the request of a record fetch has completed, loading is off and
\* the page is in data_loaded for a returned record, in no_data_for_id for an
\* empty result and in error for a server failure or a transport error; and
\* loading is on exactly while a fetchAndRenderDashboard call is suspended, so
\* no completed call leaves it on.
C19_CompletedFetchSettles ==
    /\ lastOutcome.k # "none"
          => /\ ~isLoading
             /\ lastOutcome.k = "record" => appState = "data_loaded"
             /\ lastOutcome.k = "empty" => appState = "no_data_for_id"
             /\ lastOutcome.k \in FailureKinds => appState = "error"
             /\ lastOutcome.k \in FailureKinds \cup {"record", "empty"}
    /\ isLoading <=> inFlight # {}

\* a request answered with a server error has been handled
C19_Witness ==
    /\ lastEvent = "fetchResponse"
    /\ lastOutcome.k = "httpMessage"
    /\ error = Some(Msg("Server error (%). %", "500", "Visitor lookup failed"))
    /\ ~isLoading
    /\ inFlight = {}

\* the stored configuration lacks the endpoint URL or the token, or has the
\* proxy flag off
C20_UnusableConfig ==
    /\ wpConfig # None
    /\ \/ TheValue(wpConfig).ajax_url = ""
       \/ TheValue(wpConfig).nonce = ""
       \/ ~TheValue(wpConfig).useAjaxProxy

\* C20: with such a configuration no record request is ever issued, and a
\* fetch trigger ends in error with loading off and no record: at once when
\* the proxy flag is off, and when the suspended call resumes when the
\* endpoint URL or the token is missing.
C20_UnusableConfigFailsFast ==
    /\ C20_UnusableConfig => (recordRequests = 0 /\ PostsInFlight = {})
    /\ lastOutcome.k = "syncThrow"
          => /\ ~ProxyEnabled(wpConfig)
             /\ error = Some(Msg0("WordPress configuration error. Cannot fetch data."))
    /\ lastOutcome.k = "rejected"
          => /\ ProxyEnabled(wpConfig) /\ ~ProxyConfigPresent(wpConfig)
             /\ error = Some(Msg0("WordPress configuration (ajax_url or nonce) is missing."))
    /\ lastOutcome.k \in {"syncThrow", "rejected"}
          => (appState = "error" /\ ~isLoading /\ currentNocoRecord = None
                /\ inFlight = {})
    /\ (C20_UnusableConfig /\ fetchCalls > 0 /\ Settled /\ urlId # NoId
           /\ pendingPush = NoPush)
          => (appState = "error" /\ ~isLoading)

\* the data fetch effect has triggered a fetch with the proxy flag off
C20_Witness ==
    /\ lastEvent = "effect"
    /\ lastOutcome.k = "syncThrow"
    /\ wpConfig # None
    /\ ~TheValue(wpConfig).useAjaxProxy
    /\ fetchCalls = 1
    /\ recordRequests = 0
    /\ appState = "error"

\* C21: when a record fetch has failed because the token was rejected, the
\* page is in error and a refresh of the configuration has been started: a
\* second configuration request has been issued.
C21_RejectedTokenRefreshesConfig ==
    lastOutcome.k = "httpNonce"
       => /\ appState = "error"
          /\ configRequests > 1

\* C22: the message for a record fetch rejected for a security reason (a
\* response whose text holds "Nonce") differs from the message for a request
\* that got no response, from the message for any other server error and from
\* the messages for a reported failure.
C22_SecurityMessageIsDistinct ==
    lastOutcome.k = "httpNonce"
       => /\ error # None
          /\ TheValue(error).t =
                "Server error (%). Security check failed. Please try refreshing or contact support if this persists."
          /\ \A o \in FetchOutcomes(lastOutcome.id) :
                o.k \in {"noResponse", "setup", "httpOther", "httpMessage", "failure"}
                   => /\ ProxyErrorMessage(o) # TheValue(error)
                      /\ ProxyErrorMessage(o).t # TheValue(error).t

\* the page shows the security message for the identifier of the URL
C22_Witness ==
    /\ lastEvent = "fetchResponse"
    /\ lastOutcome.k = "httpNonce"
    /\ lastOutcome.id = urlId
    /\ error = Some(Msg1("Server error (%). Security check failed. Please try refreshing or contact support if this persists.",
                          "403"))

\* the proxy answered with a body that reports failure: success:false under a
\* 2xx status, or an error status whose body carries data.message
C23_ServerReportedFailure == lastOutcome.k \in {"failure", "httpMessage"}

\* C23: when the proxy is reachable and reports failure the error shown is
\* exactly the message the server sent, if it sent one, and the fixed text
\* "Failed to fetch data (server indicated failure)." otherwise.
C23_ServerMessageShownExactly ==
    C23_ServerReportedFailure
       => error = Some(Msg0(IF lastOutcome.m # "" THEN lastOutcome.m
                            ELSE "Failed to fetch data (server indicated failure)."))

\* C23, amended: for success:false under a 2xx status the error shown is
\* exactly the server's message, or the fixed text when there is none, passed
\* on unchanged by the catch block of fetchVisitorDataViaProxy; for an error
\* status with data.message it is the server's message behind the prefix
\* "Server error (<status>). ".
C23_ServerFailureMessageShown ==
    /\ lastOutcome.k = "failure"
          => /\ appState = "error"
             /\ error = Some(Msg0(IF lastOutcome.m # "" THEN lastOutcome.m
                                   ELSE "Failed to fetch data (server indicated failure)."))
             /\ StatusShown[2] = error
    /\ lastOutcome.k = "httpMessage"
          => /\ appState = "error"
             /\ lastOutcome.m # ""
             /\ error = Some(Msg("Server error (%). %", "500", lastOutcome.m))
             /\ StatusShown[2] = error

\* the server's own message is on display
C23_Witness ==
    /\ lastEvent = "fetchResponse"
    /\ lastOutcome.k = "failure"
    /\ lastOutcome.m = "Visitor lookup failed"
    /\ error = Some(Msg0("Visitor lookup failed"))
    /\ ~isLoading

\* C24: a stored configuration is never replaced or changed, and every record
\* request is sent with the token and to the endpoint of the configuration
\* that is stored when it is sent.
C24_ConfigFixedOnceStored ==
    /\ [][ wpConfig # None => wpConfig' = wpConfig ]_vars
    /\ [][ \A r \in inFlight' \ inFlight :
              r.kind = "post"
                 => /\ wpConfig # None
                    /\ r.nonce = TheValue(wpConfig).nonce
                    /\ r.url = TheValue(wpConfig).ajax_url ]_vars

\* the second record request of the page is in flight with the stored token
C24_Witness ==
    /\ wpConfig # None
    /\ recordRequests = 2
    /\ \E r \in PostsInFlight : r.nonce = TheValue(wpConfig).nonce /\ r.nonce = "n1"

\* C25: whatever the kpi_data and structured_core_services fields of a
\* returned non-empty record hold, the fetch ends in data_loaded with no error
\* set and the dashboard content is rendered.
C25_SubFieldsNeverFailTheFetch ==
    lastOutcome.k = "record"
       => /\ appState = "data_loaded"
          /\ error = None
          /\ ~isLoading
          /\ ~RenderThrows

\* the texts of a list of KPI objects as they are written in the data
C26_TextsOf(kpis) ==
    [i \in 1..Len(kpis) |->
        [label |-> kpis[i].label, value |-> kpis[i].value, target |-> kpis[i].target]]

\* C26: when kpi_data holds valid JSON for a non-empty array of N objects the
\* cards shown are those N objects in order, with their label, value and
\* target texts; when it is absent, empty or not JSON they are the four
\* default KPIs with their texts.
C26_KpiCardsAreTheParsedObjects ==
    hasData
       => LET text == TheValue(currentNocoRecord).kpi_data
              parsed == JsonParse(text)
          IN  /\ (parsed.ok /\ parsed.isArray /\ Len(parsed.items) > 0
                    /\ \A i \in 1..Len(parsed.items) : parsed.items[i].kind = "object")
                    => KpiCardTexts = C26_TextsOf(parsed.items)
              /\ (text = "" \/ ~parsed.ok)
                    => KpiCardTexts = C26_TextsOf(DefaultKpis)

\* a record without organization/name and without company_short is on display
C27_LoadedWithoutCompanyName ==
    /\ hasData
    /\ TheValue(currentNocoRecord).organization_name = ""
    /\ TheValue(currentNocoRecord).company_short = ""

C28_ReportHasNoScript ==
    hasData
       => \A i \in 1..Len(fullDeepResearchHtml) :
             /\ fullDeepResearchHtml[i].tag # "script"
             /\ fullDeepResearchHtml[i].handlers = {}

\* C29: while a record request is in flight, the last-fetched marker equals
\* the identifier of that request.
C29_MarkerIsInFlightIdentifier ==
    \A req \in inFlight :
        req.kind = "post" => lastFetchedIdRef = req.visitorId

\* C30: retries are manual only. Once a fetch for an identifier has resolved,
\* the page issues no record request of its own accord for that identifier:
\* the step that follows the resolution starts a request only for an
\* identifier other than the one that just completed.
C30_NoAutomaticRepeat ==
    [][(lastOutcome.k # "none" /\ lastEvent' = "effect"
          /\ recordRequests' > recordRequests)
          => \A req \in inFlight' \ inFlight : req.visitorId # lastOutcome.id]_vars

\* C31: the company display name prefers the short-form field over the
\* long-form field: a loaded record that carries both fields is shown under
\* its short-form value, in the dashboard content and in the status line.
C31_BothFieldsShowShortForm ==
    (/\ hasData
     /\ TheValue(currentNocoRecord).company_short # ""
     /\ TheValue(currentNocoRecord).organization_name # "")
       => /\ companyName = TheValue(currentNocoRecord).company_short
          /\ currentStatusMessage.b = TheValue(currentNocoRecord).company_short

\* the message that handleFetchButtonClick stores for an empty input
C32_PleaseEnter == Msg0("Please enter a Visitor ID.")

\* the step is a submit (button or Enter) with an empty or blank input
C32_EmptySubmit ==
    /\ visitorIdInput \in {"", " "}
    /\ userEvents' = userEvents + 1
    /\ lastEvent' = "click"

\* the state right after such a submit
C32_AfterEmptySubmit ==
    /\ lastEvent = "click"
    /\ error = Some(C32_PleaseEnter)
    /\ pendingPush = NoId

\* C32: submitting an empty or blank input issues no request, clears the
\* stored record and the last-fetched marker, stores and shows the message
\* "Please enter a Visitor ID." and pushes the URL without identifier; when
\* that navigation completes the URL has no identifier and no request is
\* issued, and if the URL had no identifier before, the message stays.
C32_EmptySubmitClearsAndAsks ==
    /\ [][C32_EmptySubmit
            => /\ recordRequests' = recordRequests
               /\ configRequests' = configRequests
               /\ inFlight' = {}
               /\ currentNocoRecord' = None
               /\ lastFetchedIdRef' = NoId
               /\ pendingPush' = NoId
               /\ error' = Some(C32_PleaseEnter)
               /\ currentStatusMessage' = C32_PleaseEnter
               /\ ~isLoading'
               /\ ~effectPending']_vars
    /\ [][(C32_AfterEmptySubmit /\ lastEvent' = "routeChange")
            => /\ urlId' = NoId
               /\ recordRequests' = recordRequests
               /\ urlId = NoId
                     => /\ ~effectPending'
                        /\ error' = Some(C32_PleaseEnter)
                        /\ currentStatusMessage' = C32_PleaseEnter
                        /\ ~isLoading']_vars
    /\ [][(lastEvent = "routeChange" /\ urlId = NoId /\ lastEvent' = "effect")
            => /\ recordRequests' = recordRequests
               /\ inFlight' = inFlight]_vars

\* after a blank submit on a URL without identifier the navigation has
\* completed, nothing is pending and the message is on display
C32_Witness ==
    /\ lastEvent = "routeChange"
    /\ urlId = NoId
    /\ Resting
    /\ visitorIdInput = " "
    /\ error = Some(C32_PleaseEnter)
    /\ currentStatusMessage = C32_PleaseEnter
    /\ currentNocoRecord = None
    /\ lastFetchedIdRef = NoId
    /\ ~isLoading

\* C33: in every reachable state exactly one of the four page regions is
\* shown (loader, error banner, informational message, dashboard content):
\* the page is never blank, and the dashboard content is never shown together
\* with the loader or the error banner.
C33_ExactlyOneRegion ==
    /\ Cardinality(RegionsShown) = 1
    /\ "content" \in RegionsShown => (~isLoading /\ error = None)

\* C34: the status line reads "Fetching personalized insights for ID: ..."
\* only while a fetch is in flight; in the states in which the page rests
\* (ready, data_loaded, no_data_for_id, error) it describes that state.
C34_FetchingOnlyWhileInFlight ==
    currentStatusMessage.t = "Fetching personalized insights for ID: %..."
       => /\ isLoading
          /\ inFlight # {}
          /\ appState \notin {"ready", "data_loaded", "no_data_for_id", "error"}

\* C35: typing in the identifier input changes only the input text. The
\* step starts no request and leaves the stored record, the error, the
\* loading flag, the status line, the informational flag, the last-fetched
\* marker, the configuration, the URL and a pending navigation unchanged, and
\* it makes no effect run: right after it nothing is pending or in flight.
C35_TypingChangesOnlyTheInput ==
    /\ [][lastEvent' = "input"
            => /\ visitorIdInput' # visitorIdInput
               /\ UNCHANGED << currentNocoRecord, error, isLoading, currentStatusMessage,
                               showNoDataMessage, lastFetchedIdRef, wpConfig, urlId,
                               pendingPush, inFlight, configInFlight,
                               recordRequests, configRequests, fetchCalls,
                               effectPending >>]_vars
    /\ [](lastEvent = "input" => (~effectPending /\ inFlight = {} /\ ~isLoading))

\* the record of A is on display with an error-free page and the user has
\* typed B: nothing but the input text differs from the loaded state
C35_Witness ==
    /\ lastEvent = "input"
    /\ hasData
    /\ urlId = "A"
    /\ lastFetchedIdRef = "A"
    /\ visitorIdInput = "B"
    /\ recordRequests = 1

\* C36: when the services-list field of the loaded record is present but is
\* not JSON, the growth-opportunities area renders nothing, and the rest of
\* the dashboard content is still shown.
C36_ParseFailureRendersNothing ==
    (/\ hasData
     /\ TheValue(currentNocoRecord).structured_core_services # ""
     /\ ~JsonParse(TheValue(currentNocoRecord).structured_core_services).ok)
       => /\ GrowthOpportunities = "none"
          /\ RegionsShown = {"content"}

====
